---- MODULE Spec2Model ----
(***************************************************************************)
(* A model of count_reads_bridging_ends.py: the CIGAR interpreter (class   *)
(* cigar), the alignment record (class sam_entry), the read-group stream   *)
(* (class sam_per_read), the bridge predicates and the driver loop.        *)
(*                                                                         *)
(* Python values are represented as follows.                               *)
(*   - a str is a tuple of one-character strings where the code looks      *)
(*     inside it (CIGAR strings), and an opaque TLA+ string or token tuple *)
(*     otherwise;                                                          *)
(*   - None is the empty tuple <<>>, an int n that may be None is <<n>>,   *)
(*     and the pair (min, max) is <<min, max>>;                            *)
(*   - the result of a call that may raise is the string "True", "False",  *)
(*     "None", or the name of the exception raised.                        *)
(***************************************************************************)
EXTENDS Integers, Sequences, FiniteSets, TLC

VARIABLES
    \* CIGAR interpreter, exercised on its own
    cigarString, cig, rmss, cpc,
    \* bridge predicates, exercised on one ordered pair of records
    a, b, single, swapped, paired, bpc,
    \* the input file and the file handle of sam_per_read
    file, fpos, cursor_pos, currlines,
    \* the driver loop of the __main__ block
    pc, alns, i, j, total, singleReadHits, pairedReadHits,
    supportedBySingleRead, supportedByPairedRead, out, error,
    \* history: the groups next() has returned, the readline() calls of the
    \* current call of next(), the pairs evaluated for the current group
    groups, reads, evaluated

cigarVars == <<cigarString, cig, rmss, cpc>>

bridgeVars == <<a, b, single, swapped, paired, bpc>>

streamVars == <<file, fpos, cursor_pos, currlines>>

driverVars ==
    <<pc, alns, i, j, total, singleReadHits, pairedReadHits,
      supportedBySingleRead, supportedByPairedRead, out, error,
      groups, reads, evaluated>>

vars == <<cigarVars, bridgeVars, streamVars, driverVars>>

None == <<>>

Some(x) == <<x>>

(***************************************************************************)
(* class cigar                                                             *)
(***************************************************************************)

\* the character classes of r'\d+[MINDSHPX=]'
DigitChars == {"0", "1", "2", "3", "4", "5", "6", "7", "8", "9"}

OpChars == {"M", "I", "N", "D", "S", "H", "P", "X", "="}

\* int() of one decimal digit
DigitValue(c) ==
    CASE c = "0" -> 0 [] c = "1" -> 1 [] c = "2" -> 2 [] c = "3" -> 3
      [] c = "4" -> 4 [] c = "5" -> 5 [] c = "6" -> 6 [] c = "7" -> 7
      [] c = "8" -> 8 [] c = "9" -> 9

\* int() of a non-empty tuple of decimal digits
RECURSIVE IntOfDigits(_)
IntOfDigits(ds) ==
    IF Len(ds) = 0 THEN 0
    ELSE 10 * IntOfDigits(SubSeq(ds, 1, Len(ds) - 1)) + DigitValue(ds[Len(ds)])

\* the index after the maximal run of digits of s that starts at index at
RECURSIVE DigitRunEnd(_, _)
DigitRunEnd(s, at) ==
    IF at <= Len(s) /\ s[at] \in DigitChars THEN DigitRunEnd(s, at + 1) ELSE at

\* re.findall(r'\d+[MINDSHPX=]', s), scanning from index at: the
\* non-overlapping matches from left to right; text that matches nothing is
\* skipped
RECURSIVE FindAllFrom(_, _)
FindAllFrom(s, at) ==
    IF at > Len(s) THEN <<>>
    ELSE IF s[at] \in DigitChars
         THEN LET e == DigitRunEnd(s, at)
              IN  IF e <= Len(s) /\ s[e] \in OpChars
                  THEN <<SubSeq(s, at, e)>> \o FindAllFrom(s, e + 1)
                  ELSE FindAllFrom(s, at + 1)
         ELSE FindAllFrom(s, at + 1)

subCigarStrings(s) == FindAllFrom(s, 1)

\* [a[-1:], int(a[:-1])]
CigarPart(tok) == <<tok[Len(tok)], IntOfDigits(SubSeq(tok, 1, Len(tok) - 1))>>

CigarParts(s) ==
    LET toks == subCigarStrings(s) IN [k \in 1..Len(toks) |-> CigarPart(toks[k])]

\* the sum of the lengths of the parts whose operation is in ops
RECURSIVE SumOver(_, _)
SumOver(parts, ops) ==
    IF Len(parts) = 0 THEN 0
    ELSE (IF parts[1][1] \in ops THEN parts[1][2] ELSE 0)
         + SumOver(Tail(parts), ops)

ReadLengthOps == {"M", "I", "S", "X", "="}

\* readLength with the soft clips left out of the read
readLengthNoSoftClip(parts) == SumOver(parts, ReadLengthOps \ {"S"})

readLength(parts) == SumOver(parts, ReadLengthOps)

AlnLengthOps == {"M", "D", "N", "=", "X"}

alnLength(parts) == SumOver(parts, AlnLengthOps)

\* the '*' sentinel
StarString == <<"*">>

IsStar(s) == s = StarString

\* cigar.__init__ without the test for the sentinel
cigarNoSentinel(s) ==
    [cigarString |-> s,
     subCigarStrings |-> Some(subCigarStrings(s)),
     parts |-> Some(CigarParts(s)),
     readLength |-> Some(readLength(CigarParts(s))),
     alnLength |-> Some(alnLength(CigarParts(s)))]

\* cigar.__init__
cigar(s) ==
    IF ~IsStar(s)
    THEN [cigarString |-> s,
          subCigarStrings |-> Some(subCigarStrings(s)),
          parts |-> Some(CigarParts(s)),
          readLength |-> Some(readLength(CigarParts(s))),
          alnLength |-> Some(alnLength(CigarParts(s)))]
    ELSE [cigarString |-> s,
          subCigarStrings |-> None,
          parts |-> None,
          readLength |-> None,
          alnLength |-> None]

\* a variant in which an insertion does not advance the read cursor
RECURSIVE SubsFromInsertionStays(_, _)
SubsFromInsertionStays(parts, at) ==
    IF Len(parts) = 0 THEN <<>>
    ELSE LET op == parts[1][1]
             n  == parts[1][2]
         IN  IF op = "S"
             THEN [k \in 1..n |-> at + k - 1]
                      \o SubsFromInsertionStays(Tail(parts), at + n)
             ELSE IF op \in {"M", "X", "="}
                  THEN SubsFromInsertionStays(Tail(parts), at + n)
                  ELSE SubsFromInsertionStays(Tail(parts), at)

\* the read indices (0-based) appended to subs by the loop over the parts,
\* with the read cursor at index at
RECURSIVE SubsFrom(_, _)
SubsFrom(parts, at) ==
    IF Len(parts) = 0 THEN <<>>
    ELSE LET op == parts[1][1]
             n  == parts[1][2]
         IN  IF op = "S"
             THEN [k \in 1..n |-> at + k - 1] \o SubsFrom(Tail(parts), at + n)
             ELSE IF op \in {"M", "I", "X", "="}
                  THEN SubsFrom(Tail(parts), at + n)
                  ELSE SubsFrom(Tail(parts), at)

\* subs.reverse(); for i in subs: poss.pop(i). The indices of subs increase
\* and are popped from the last to the first, so each pop removes the
\* element the list held at that index before any pop; the elements of poss
\* are distinct
PopAll(poss, subs) ==
    LET popped == {poss[subs[k] + 1] : k \in 1..Len(subs)}
    IN  SelectSeq(poss, LAMBDA v : v \notin popped)

SeqMin(s) == CHOOSE x \in {s[k] : k \in 1..Len(s)} :
                 \A y \in {s[k] : k \in 1..Len(s)} : x <= y

SeqMax(s) == CHOOSE x \in {s[k] : k \in 1..Len(s)} :
                 \A y \in {s[k] : k \in 1..Len(s)} : x >= y

\* cigar.readMatchStartStop
readMatchStartStop(c) ==
    IF c.readLength = None THEN None
    ELSE LET poss == [k \in 1..c.readLength[1] |-> k]
             kept == PopAll(poss, SubsFrom(c.parts[1], 0))
         IN  IF Len(kept) = 0 THEN None ELSE <<SeqMin(kept), SeqMax(kept)>>

(***************************************************************************)
(* The CIGAR strings the interpreter is exercised on: every string of at   *)
(* most MaxParts run-length tokens with a length in CigarLens, the '*'     *)
(* sentinel, and strings with text outside the grammar.                    *)
(***************************************************************************)
MaxParts == 3

CigarLens == {1, 2}

DigitChar(d) ==
    CASE d = 0 -> "0" [] d = 1 -> "1" [] d = 2 -> "2" [] d = 3 -> "3"
      [] d = 4 -> "4" [] d = 5 -> "5" [] d = 6 -> "6" [] d = 7 -> "7"
      [] d = 8 -> "8" [] d = 9 -> "9"

\* the decimal digits of n
RECURSIVE DigitsOf(_)
DigitsOf(n) ==
    IF n < 10 THEN <<DigitChar(n)>>
    ELSE DigitsOf(n \div 10) \o <<DigitChar(n % 10)>>

\* the text of a list of (operation, length) pairs
RECURSIVE TextOf(_)
TextOf(parts) ==
    IF Len(parts) = 0 THEN <<>>
    ELSE DigitsOf(parts[1][2]) \o <<parts[1][1]>> \o TextOf(Tail(parts))

PartLists ==
    UNION {[1..n -> OpChars \X CigarLens] : n \in 1..MaxParts}

OffGrammarStrings ==
    {StarString, <<>>, <<"M">>, <<"1">>, <<"1", "M", "2">>,
     <<"M", "1", "S">>, <<"1", "2", "M">>, <<"1", "Z", "2", "M">>,
     <<"*", "1", "M">>, <<"1", "0", "S">>}

CigarInputs == {TextOf(p) : p \in PartLists} \cup OffGrammarStrings

CigarInit ==
    /\ cigarString \in CigarInputs
    /\ cig = None
    /\ rmss = None
    /\ cpc = "new"
    /\ a = None /\ b = None /\ single = "NotCalled" /\ paired = "NotCalled"
    /\ swapped = "NotCalled"
    /\ bpc = "idle"
    /\ file = <<>> /\ fpos = 1 /\ cursor_pos = 1 /\ currlines = <<>>
    /\ pc = "idle" /\ alns = <<>> /\ i = 0 /\ j = 0
    /\ total = 0 /\ singleReadHits = 0 /\ pairedReadHits = 0
    /\ supportedBySingleRead = <<>> /\ supportedByPairedRead = <<>>
    /\ out = <<>> /\ error = "" /\ groups = <<>> /\ reads = 0
    /\ evaluated = <<>>

\* aCigar = cigar(s)
Construct ==
    /\ cpc = "new"
    /\ cig' = cigar(cigarString)
    /\ cpc' = "built"
    /\ UNCHANGED <<cigarString, rmss, bridgeVars, streamVars, driverVars>>

\* aCigar.readMatchStartStop()
CallReadMatchStartStop ==
    /\ cpc = "built"
    /\ rmss' = readMatchStartStop(cig)
    /\ cpc' = "ranged"
    /\ UNCHANGED <<cigarString, cig, bridgeVars, streamVars, driverVars>>

CigarNext == Construct \/ CallReadMatchStartStop

SpecCigar == CigarInit /\ [][CigarNext]_vars

(***************************************************************************)
(* Properties of the CIGAR interpreter                                     *)
(***************************************************************************)

\* the concatenation of a tuple of tuples
RECURSIVE Flatten(_)
Flatten(ss) == IF Len(ss) = 0 THEN <<>> ELSE ss[1] \o Flatten(Tail(ss))

\* s is one or more run-length tokens with positive lengths and nothing else
IsValidCigar(s) ==
    /\ s # StarString
    /\ Len(s) > 0
    /\ Flatten(subCigarStrings(s)) = s
    /\ \A k \in 1..Len(CigarParts(s)) : CigarParts(s)[k][2] > 0

\* the operations of a parsed CIGAR
OpsOf(parts) == {parts[k][1] : k \in 1..Len(parts)}

\* the total length of the parts of a parsed CIGAR whose operation is in ops
TotalLen(parts, ops) ==
    LET idx == {k \in 1..Len(parts) : parts[k][1] \in ops}
        RECURSIVE Add(_)
        Add(S) == IF S = {} THEN 0
                  ELSE LET k == CHOOSE x \in S : TRUE
                       IN  parts[k][2] + Add(S \ {k})
    IN  Add(idx)

\* C8: parsing the '*' sentinel gives None for readLength, for alnLength and
\* for the matched read range, never zero.
C8_StarIsAbsent ==
    (cpc \in {"built", "ranged"} /\ cigarString = <<"*">>) =>
        /\ cig.readLength = None
        /\ cig.alnLength = None
        /\ cig.readLength # Some(0)
        /\ cig.alnLength # Some(0)
        /\ (cpc = "ranged" => rmss = None)

C8_Witness ==
    /\ cpc = "ranged"
    /\ cigarString = <<"*">>
    /\ cig.readLength = None
    /\ rmss = None

\* C9 as stated: for a CIGAR of valid run-length tokens, readLength equals
\* alnLength if and only if the string has no I, N or S operation and
\* consists solely of M, =, X and D operations.
C9_EqualIffOnlyMatchOrDeletion ==
    (cpc \in {"built", "ranged"} /\ IsValidCigar(cigarString)) =>
        ((cig.readLength = cig.alnLength)
            <=> (OpsOf(cig.parts[1]) \subseteq {"M", "=", "X", "D"}))

\* C9 as amended: for a CIGAR of valid run-length tokens, readLength equals
\* alnLength if and only if the total length of its I and S operations
\* equals the total length of its D and N operations; so the two are equal
\* whenever the string has no I, S, D or N operation.
C9_EqualIffReadOnlyMatchesRefOnly ==
    (cpc \in {"built", "ranged"} /\ IsValidCigar(cigarString)) =>
        /\ (cig.readLength = cig.alnLength)
              <=> (TotalLen(cig.parts[1], {"I", "S"})
                     = TotalLen(cig.parts[1], {"D", "N"}))
        /\ (OpsOf(cig.parts[1]) \cap {"I", "S", "D", "N"} = {})
              => cig.readLength = cig.alnLength

\* an insertion balanced by a deletion: equal lengths with an I in the string
C9_Witness ==
    /\ cpc = "built"
    /\ cigarString = <<"1", "I", "1", "D">>
    /\ cig.readLength = Some(1)
    /\ cig.alnLength = Some(1)

\* the operations that cover read positions with aligned bases
ReadCovering == {"M", "I", "X", "="}

\* the indices of the parts that cover at least one read position
CoveringIdx(parts) ==
    {k \in 1..Len(parts) : parts[k][1] \in ReadCovering /\ parts[k][2] > 0}

\* the soft-clipped length before the first covering part
LeadingSoftClip(parts) ==
    LET first == CHOOSE k \in CoveringIdx(parts) :
                     \A m \in CoveringIdx(parts) : k <= m
    IN  TotalLen(SubSeq(parts, 1, first - 1), {"S"})

\* the soft-clipped length after the last covering part
TrailingSoftClip(parts) ==
    LET last == CHOOSE k \in CoveringIdx(parts) :
                    \A m \in CoveringIdx(parts) : k >= m
    IN  TotalLen(SubSeq(parts, last + 1, Len(parts)), {"S"})

\* the interval computation: (leading soft clip + 1, read length - trailing
\* soft clip), absent when no part covers a read position
IntervalRange(parts) ==
    IF CoveringIdx(parts) = {} THEN None
    ELSE <<LeadingSoftClip(parts) + 1,
           TotalLen(parts, ReadLengthOps) - TrailingSoftClip(parts)>>

\* C11: for a CIGAR of valid run-length tokens, readMatchStartStop returns
\* what the interval computation returns (leading soft-clip length + 1,
\* readLength - trailing soft-clip length), returns None exactly when no read
\* position is covered by an M, I, = or X operation, and the span
\* max - min + 1 of its result never exceeds readLength.
C11_RangeIsInterval ==
    (cpc = "ranged" /\ IsValidCigar(cigarString)) =>
        /\ rmss = IntervalRange(cig.parts[1])
        /\ (rmss = None) <=> (TotalLen(cig.parts[1], ReadCovering) = 0)
        /\ (rmss # None) => (/\ rmss[1] <= rmss[2]
                             /\ rmss[2] - rmss[1] + 1 <= cig.readLength[1])

\* a soft clip before the aligned part and a soft clip after it
C11_Witness ==
    /\ cpc = "ranged"
    /\ cigarString = <<"1", "S", "2", "M", "1", "S">>
    /\ rmss = <<2, 3>>

\* a hard clip before the leading soft clip does not move the range
C11_HardClipReached ==
    /\ cpc = "ranged"
    /\ cigarString = <<"1", "H", "1", "S", "1", "M">>
    /\ rmss = <<2, 2>>

(***************************************************************************)
(* The bridge predicates of the __main__ block                             *)
(***************************************************************************)

maxInsertSize == 500

\* x & m for a mask m of one bit
BitAnd(x, m) == IF (x \div m) % 2 = 1 THEN m ELSE 0

\* the text '_length_' of the pattern r'_length_(\d+)_'
LengthTag == <<"_", "l", "e", "n", "g", "t", "h", "_">>

\* whether s holds the text t at index at
HasTextAt(s, t, at) ==
    /\ at + Len(t) - 1 <= Len(s)
    /\ SubSeq(s, at, at + Len(t) - 1) = t

\* re.search(r'_length_(\d+)_', s) from index at: the digits of the leftmost
\* match, as <<digits>>, or None
RECURSIVE SearchLengthFrom(_, _)
SearchLengthFrom(s, at) ==
    IF at > Len(s) THEN None
    ELSE IF HasTextAt(s, LengthTag, at)
         THEN LET d == at + Len(LengthTag)
                  e == DigitRunEnd(s, d)
              IN  IF e > d /\ e <= Len(s) /\ s[e] = "_"
                  THEN Some(SubSeq(s, d, e - 1))
                  ELSE SearchLengthFrom(s, at + 1)
         ELSE SearchLengthFrom(s, at + 1)

lenFromContigName(contigNameStr) ==
    LET m == SearchLengthFrom(contigNameStr, 1)
    IN  IF m = None THEN None ELSE Some(IntOfDigits(m[1]))

isR1(e) == BitAnd(e.flag, 4) = 0 /\ BitAnd(e.flag, 16) = 0

isR2(e) == BitAnd(e.flag, 4) = 0 /\ BitAnd(e.flag, 16) = 1

\* sameReadForward without the comparison of the first-in-pair bits
sameReadForwardAnyMate(x, y) ==
    /\ BitAnd(x.flag, 4) = 0 /\ BitAnd(y.flag, 4) = 0
    /\ BitAnd(x.flag, 16) = 0 /\ BitAnd(y.flag, 16) = 0

sameReadForward(x, y) ==
    /\ BitAnd(x.flag, 4) = 0 /\ BitAnd(y.flag, 4) = 0
    /\ BitAnd(x.flag, 64) = BitAnd(y.flag, 64)
    /\ BitAnd(x.flag, 16) = 0 /\ BitAnd(y.flag, 16) = 0

\* the last conjunct compares b.flag & 0x10 with 1
sameReadReverse(x, y) ==
    /\ BitAnd(x.flag, 4) = 0 /\ BitAnd(y.flag, 4) = 0
    /\ BitAnd(x.flag, 64) = BitAnd(y.flag, 64)
    /\ BitAnd(x.flag, 16) # 0 /\ BitAnd(y.flag, 16) = 1

\* pairedReads: "False", "R1R2", "R2R1", or "AttributeError" when the
\* condition is evaluated as far as b.flat, an attribute no sam_entry has
pairedReads(x, y) ==
    LET upToFlat == /\ BitAnd(x.flag, 1) # 0 /\ BitAnd(y.flag, 1) # 0
                    /\ BitAnd(x.flag, 4) # 0
    IN  IF upToFlat /\ "flat" \notin DOMAIN y THEN "AttributeError"
        ELSE IF upToFlat /\ BitAnd(y.flat, 4) # 0
             THEN IF BitAnd(x.flag, 64) = 0 /\ BitAnd(y.flag, 128) = 0
                  THEN "R1R2"
                  ELSE IF BitAnd(x.flag, 128) = 0 /\ BitAnd(y.flag, 64) = 0
                       THEN "R2R1"
                       ELSE "False"
             ELSE "False"

\* WrapTest with the wrap span required to be less than the limit
WrapTestStrict(cond, T, from, to, len, limit, rest) ==
    IF cond
    THEN IF T = None THEN "TypeError"
         ELSE IF T[1] - from + to + len < limit THEN "True" ELSE rest
    ELSE rest

\* one of the four tests of singleReadSegmentBridges: when cond holds the
\* wrap span T - from + to + len is compared with limit, which raises
\* TypeError for T = None; rest is the result of the statements that follow
WrapTest(cond, T, from, to, len, limit, rest) ==
    IF cond
    THEN IF T = None THEN "TypeError"
         ELSE IF T[1] - from + to + len <= limit THEN "True" ELSE rest
    ELSE rest

\* singleReadSegmentBridges without the tests of lines 268-271 and 276-279,
\* in which b's part of the read comes before a's
singleReadSegmentBridgesOneOrder(x, y) ==
    LET strand == IF sameReadForward(x, y) THEN "forward"
                  ELSE IF sameReadReverse(x, y) THEN "reverse" ELSE "none"
        template_length == lenFromContigName(x.rname)
        aCigar == cigar(x.cigar)
        bCigar == cigar(y.cigar)
        read_length == aCigar.readLength
        aR == readMatchStartStop(aCigar)
        bR == readMatchStartStop(bCigar)
    IN  IF strand = "none" THEN "False"
        ELSE IF x.rname # y.rname THEN "False"
        ELSE IF aR = None \/ bR = None THEN "False"
        ELSE
          WrapTest(/\ aR[2] < bR[1]
                   /\ x.pos > y.pos + bCigar.alnLength[1]
                   /\ strand = "forward",
                   template_length, x.pos, y.pos, bCigar.alnLength[1],
                   read_length[1],
          WrapTest(/\ aR[2] < bR[1]
                   /\ x.pos + aCigar.alnLength[1] < y.pos
                   /\ strand = "reverse",
                   template_length, y.pos, x.pos, aCigar.alnLength[1],
                   read_length[1],
          "False"))

singleReadSegmentBridges(x, y) ==
    LET strand == IF sameReadForward(x, y) THEN "forward"
                  ELSE IF sameReadReverse(x, y) THEN "reverse" ELSE "none"
        template_length == lenFromContigName(x.rname)
        aCigar == cigar(x.cigar)
        bCigar == cigar(y.cigar)
        read_length == aCigar.readLength
        aR == readMatchStartStop(aCigar)
        bR == readMatchStartStop(bCigar)
    IN  IF strand = "none" THEN "False"
        ELSE IF x.rname # y.rname THEN "False"
        ELSE IF aR = None \/ bR = None THEN "False"
        ELSE
          WrapTest(/\ aR[2] < bR[1]
                   /\ x.pos > y.pos + bCigar.alnLength[1]
                   /\ strand = "forward",
                   template_length, x.pos, y.pos, bCigar.alnLength[1],
                   read_length[1],
          WrapTest(/\ bR[2] < aR[1]
                   /\ y.pos > x.pos + aCigar.alnLength[1]
                   /\ strand = "forward",
                   template_length, y.pos, x.pos, aCigar.alnLength[1],
                   read_length[1],
          WrapTest(/\ aR[2] < bR[1]
                   /\ x.pos + aCigar.alnLength[1] < y.pos
                   /\ strand = "reverse",
                   template_length, y.pos, x.pos, aCigar.alnLength[1],
                   read_length[1],
          WrapTest(/\ bR[2] < aR[1]
                   /\ y.pos + bCigar.alnLength[1] < x.pos
                   /\ strand = "reverse",
                   template_length, x.pos, y.pos, bCigar.alnLength[1],
                   read_length[1],
          "False"))))

\* one of the tests of pairedReadBridge whose last conjunct compares the
\* wrap span with maxInsertSize; a test that fails leaves the result to rest
InsertTest(cond, T, from, to, len, limit, rest) ==
    IF cond
    THEN IF T = None THEN "TypeError"
         ELSE IF T[1] - from + to + len <= limit THEN "True" ELSE rest
    ELSE rest

\* x & 0x10 == 0 & y & 0x10 != 0: & binds tighter than the comparisons, so
\* this is the chain (x & 0x10) == (0 & y & 0x10) != 0
ChainedStrandTest(xflag, yflag) ==
    LET mid == 0
    IN  BitAnd(xflag, 16) = mid /\ mid # 0

pairedReadBridge(x, y, maxInsert) ==
    LET template_length == lenFromContigName(x.rname)
        aR == readMatchStartStop(cigar(x.cigar))
        bR == readMatchStartStop(cigar(y.cigar))
        aAlnLen == aR[2] - aR[1] + 1
        bAlnLen == bR[2] - bR[1] + 1
        pr == pairedReads(x, y)
    IN  IF x.rname # y.rname THEN "False"
        ELSE IF aR = None \/ bR = None THEN "TypeError"
        ELSE IF pr = "AttributeError" THEN "AttributeError"
        ELSE IF pr = "R1R2"
        THEN InsertTest(/\ BitAnd(x.flag, 16) # 0 /\ BitAnd(y.flag, 16) = 0
                        /\ x.pos > y.pos + bAlnLen,
                        template_length, x.pos, y.pos, bAlnLen, maxInsert,
             InsertTest(/\ ChainedStrandTest(x.flag, y.flag)
                        /\ y.pos > x.pos + aAlnLen,
                        template_length, y.pos, x.pos, aAlnLen, maxInsert,
             "None"))
        ELSE IF pr = "R2R1"
        THEN InsertTest(/\ BitAnd(y.flag, 16) # 0 /\ BitAnd(x.flag, 16) = 0
                        /\ y.pos > x.pos + aAlnLen,
                        template_length, y.pos, x.pos, aAlnLen, maxInsert,
             InsertTest(/\ ChainedStrandTest(y.flag, x.flag)
                        /\ x.pos > y.pos + bAlnLen,
                        template_length, x.pos, y.pos, bAlnLen, maxInsert,
             "None"))
        ELSE "False"

(***************************************************************************)
(* The records the bridge predicates are exercised on                      *)
(***************************************************************************)

\* contigs of length 1000 and 2000, a name with no '_length_', and a name
\* whose length is not followed by '_'
Contig1000 == <<"c", "_", "l", "e", "n", "g", "t", "h", "_", "1", "0", "0", "0", "_", "x">>

Contig2000 == <<"c", "_", "l", "e", "n", "g", "t", "h", "_", "2", "0", "0", "0", "_", "x">>

ContigPlain == <<"c", "h", "r", "1">>

ContigLengthLast == <<"c", "_", "l", "e", "n", "g", "t", "h", "_", "1", "0", "0", "0">>

BridgeRnames == {Contig1000, Contig2000, ContigPlain, ContigLengthLast}

\* mapped forward, mapped reverse, mapped forward first-in-pair, paired and
\* unmapped, paired first-in-pair reverse, paired second-in-pair forward
BridgeFlags == {0, 16, 64, 5, 81, 129}

BridgePositions == {5, 10, 950, 1400, 1700, 1980}

Cigar60M40S == <<"6", "0", "M", "4", "0", "S">>

Cigar60S40M == <<"6", "0", "S", "4", "0", "M">>

Cigar30M == <<"3", "0", "M">>

Cigar5S == <<"5", "S">>

BridgeCigars == {StarString, Cigar60M40S, Cigar60S40M, Cigar30M, Cigar5S}

\* the last position of a reference
LastPosition(r) ==
    IF r \in {Contig1000, ContigLengthLast} THEN 1000 ELSE 2000

\* the records, each at a position its reference has
BridgeEntries ==
    {e \in [qname : {<<"r">>}, flag : BridgeFlags, rname : BridgeRnames,
            pos : BridgePositions, cigar : BridgeCigars] :
        e.pos <= LastPosition(e.rname)}

\* b is on the reference of a or on Contig1000
BridgeInit ==
    /\ a \in BridgeEntries
    /\ b \in {e \in BridgeEntries : e.rname \in {a.rname, Contig1000}}
    /\ single = "NotCalled"
    /\ swapped = "NotCalled"
    /\ paired = "NotCalled"
    /\ bpc = "new"
    /\ cigarString = None /\ cig = None /\ rmss = None /\ cpc = "idle"
    /\ file = <<>> /\ fpos = 1 /\ cursor_pos = 1 /\ currlines = <<>>
    /\ pc = "idle" /\ alns = <<>> /\ i = 0 /\ j = 0
    /\ total = 0 /\ singleReadHits = 0 /\ pairedReadHits = 0
    /\ supportedBySingleRead = <<>> /\ supportedByPairedRead = <<>>
    /\ out = <<>> /\ error = "" /\ groups = <<>> /\ reads = 0
    /\ evaluated = <<>>

\* singleReadSegmentBridges(a, b)
CallSingle ==
    /\ bpc = "new"
    /\ single' = singleReadSegmentBridges(a, b)
    /\ bpc' = "single"
    /\ UNCHANGED <<a, b, swapped, paired, cigarVars, streamVars, driverVars>>

\* pairedReadBridge(a, b, maxInsertSize)
CallPaired ==
    /\ bpc = "new"
    /\ paired' = pairedReadBridge(a, b, maxInsertSize)
    /\ bpc' = "paired"
    /\ UNCHANGED <<a, b, single, swapped, cigarVars, streamVars, driverVars>>

\* singleReadSegmentBridges(b, a), after singleReadSegmentBridges(a, b)
CallSingleSwapped ==
    /\ bpc = "single"
    /\ swapped' = singleReadSegmentBridges(b, a)
    /\ bpc' = "swapped"
    /\ UNCHANGED <<a, b, single, paired, cigarVars, streamVars, driverVars>>

BridgeNext == CallSingle \/ CallSingleSwapped \/ CallPaired

SpecBridge == BridgeInit /\ [][BridgeNext]_vars

(***************************************************************************)
(* Properties of the bridge predicates                                     *)
(***************************************************************************)

\* the contig length a reference name of BridgeRnames encodes, read off the
\* name: <<T>> for '_length_<T>_', None otherwise
EncodedLength(r) ==
    CASE r = Contig1000 -> Some(1000)
      [] r = Contig2000 -> Some(2000)
      [] OTHER -> None

\* the matched read range, the alignment length and the read length of the
\* CIGARs of BridgeCigars, read off the strings
RangeOf(c) ==
    CASE c = Cigar60M40S -> <<1, 60>>
      [] c = Cigar60S40M -> <<61, 100>>
      [] c = Cigar30M -> <<1, 30>>
      [] OTHER -> None

AlnLengthOf(c) ==
    CASE c = Cigar60M40S -> 60 [] c = Cigar60S40M -> 40 [] c = Cigar30M -> 30
      [] c = Cigar5S -> 0

ReadLengthOf(c) ==
    CASE c = Cigar60M40S -> 100 [] c = Cigar60S40M -> 100
      [] c = Cigar30M -> 30 [] c = Cigar5S -> 5

Mapped(e) == (e.flag \div 4) % 2 = 0

Paired(e) == e.flag % 2 = 1

Reverse(e) == (e.flag \div 16) % 2 = 1

FirstInPair(e) == (e.flag \div 64) % 2 = 1

SecondInPair(e) == (e.flag \div 128) % 2 = 1

\* a and b are mapped to one reference whose name encodes a length, agree on
\* the first-in-pair bit, and both CIGARs give a matched read range
SameReadPair ==
    /\ Mapped(a) /\ Mapped(b)
    /\ a.rname = b.rname
    /\ EncodedLength(a.rname) # None
    /\ FirstInPair(a) = FirstInPair(b)
    /\ RangeOf(a.cigar) # None /\ RangeOf(b.cigar) # None

\* C3: forward-strand single-read bridge. For mapped a and b on one
\* reference of length T, with equal first-in-pair bits and neither on the
\* reverse strand, both with a matched read range, a's range ending before
\* b's starts and a.pos > b.pos + b.alnLength:
\* singleReadSegmentBridges(a, b) is True iff
\* T - a.pos + b.pos + b.alnLength <= readLength (of a's CIGAR).
C3_ForwardBridgeIff ==
    (/\ bpc = "single"
     /\ SameReadPair
     /\ ~Reverse(a) /\ ~Reverse(b)
     /\ RangeOf(a.cigar)[2] < RangeOf(b.cigar)[1]
     /\ a.pos > b.pos + AlnLengthOf(b.cigar))
    => ((single = "True")
          <=> (EncodedLength(a.rname)[1] - a.pos + b.pos
                 + AlnLengthOf(b.cigar) <= ReadLengthOf(a.cigar)))

\* the example of the claim: T = 1000, a at 950 with read range ending at 60,
\* b at 10 with read range starting at 61 and alignment length 40
C3_Witness ==
    /\ bpc = "single"
    /\ a.flag = 0 /\ b.flag = 0
    /\ a.rname = Contig1000 /\ b.rname = Contig1000
    /\ a.pos = 950 /\ b.pos = 10
    /\ a.cigar = Cigar60M40S /\ b.cigar = Cigar60S40M
    /\ single = "True"

\* C4: reverse-strand single-read bridge. For mapped a and b on one
\* reference of length T, with equal first-in-pair bits and both on the
\* reverse strand, both with a matched read range, a's range ending before
\* b's starts and a.pos + a.alnLength < b.pos:
\* singleReadSegmentBridges(a, b) is True iff
\* T - b.pos + a.pos + a.alnLength <= readLength.
C4_ReverseBridgeIff ==
    (/\ bpc = "single"
     /\ SameReadPair
     /\ Reverse(a) /\ Reverse(b)
     /\ RangeOf(a.cigar)[2] < RangeOf(b.cigar)[1]
     /\ a.pos + AlnLengthOf(a.cigar) < b.pos)
    => ((single = "True")
          <=> (EncodedLength(a.rname)[1] - b.pos + a.pos
                 + AlnLengthOf(a.cigar) <= ReadLengthOf(a.cigar)))

\* the matched read span max - min + 1 of a CIGAR with a matched read range
SpanOf(c) == RangeOf(c)[2] - RangeOf(c)[1] + 1

\* C5: paired-read bridge. For a and b both mapped, both paired, one
\* first-in-pair and the other second-in-pair, on one reference of length
\* T and on opposite strands, the reverse-strand mate lying beyond the
\* forward-strand mate's alignment: pairedReadBridge(a, b, maxInsertSize) is
\* True iff T - downstream.pos + upstream.pos + upstream span
\* <= maxInsertSize, the reverse-strand mate being the downstream one.
C5_PairedBridgeIff ==
    (/\ bpc = "paired"
     /\ Mapped(a) /\ Mapped(b)
     /\ Paired(a) /\ Paired(b)
     /\ \/ FirstInPair(a) /\ SecondInPair(b)
        \/ SecondInPair(a) /\ FirstInPair(b)
     /\ a.rname = b.rname
     /\ EncodedLength(a.rname) # None
     /\ RangeOf(a.cigar) # None /\ RangeOf(b.cigar) # None
     /\ Reverse(a) # Reverse(b))
    => LET down == IF Reverse(a) THEN a ELSE b
           up   == IF Reverse(a) THEN b ELSE a
       IN  down.pos > up.pos + SpanOf(up.cigar)
           => ((paired = "True")
                 <=> (EncodedLength(a.rname)[1] - down.pos + up.pos
                        + SpanOf(up.cigar) <= maxInsertSize))

\* C6: when the CIGAR of a or of b is '*' or gives no matched read range,
\* singleReadSegmentBridges and pairedReadBridge both return False, raising
\* nothing.
C6_AbsentRangeIsNoBridge ==
    (RangeOf(a.cigar) = None \/ RangeOf(b.cigar) = None)
    => /\ (bpc = "single" => single = "False")
       /\ (bpc = "paired" => paired = "False")

\* C7: when the reference name of the pair encodes no contig length,
\* singleReadSegmentBridges and pairedReadBridge both return False, whatever
\* the positions, flags and CIGARs, raising nothing. Stated for the records
\* whose CIGARs give a matched read range; the others are the case of C6.
C7_NoLengthIsNoBridge ==
    (/\ a.rname = b.rname
     /\ EncodedLength(a.rname) = None
     /\ RangeOf(a.cigar) # None /\ RangeOf(b.cigar) # None)
    => /\ (bpc = "single" => single = "False")
       /\ (bpc = "paired" => paired = "False")

\* the CIGARs of a and b give the same read length
SameReadLength ==
    IF a.cigar = StarString \/ b.cigar = StarString
    THEN a.cigar = b.cigar
    ELSE ReadLengthOf(a.cigar) = ReadLengthOf(b.cigar)

\* C13: for a and b whose reference names encode a contig length and whose
\* CIGARs give the same readLength, singleReadSegmentBridges(a, b) equals
\* singleReadSegmentBridges(b, a); the two orders differ only when the two
\* CIGARs give different read lengths.
C13_SingleBridgeIsSymmetric ==
    (/\ bpc = "swapped"
     /\ EncodedLength(a.rname) # None
     /\ EncodedLength(b.rname) # None)
    => /\ SameReadLength => single = swapped
       /\ single # swapped => ~SameReadLength

\* the bridge of C3 with the arguments in the other order: the same verdict
C13_Witness ==
    /\ bpc = "swapped"
    /\ a.flag = 0 /\ b.flag = 0
    /\ a.rname = Contig1000 /\ b.rname = Contig1000
    /\ a.pos = 10 /\ b.pos = 950
    /\ a.cigar = Cigar60S40M /\ b.cigar = Cigar60M40S
    /\ single = "True"
    /\ swapped = "True"

\* the two orders differ when the read lengths differ: 30 and 100
OrdersDifferReached ==
    /\ bpc = "swapped"
    /\ a.rname = Contig1000 /\ b.rname = Contig1000
    /\ a.cigar = Cigar30M /\ b.cigar = Cigar60S40M
    /\ single = "False"
    /\ swapped = "True"

(***************************************************************************)
(* class sam_entry                                                         *)
(***************************************************************************)

\* a line of the file is the tuple of its tab-separated fields, each a tuple
\* of characters; ''.split('\t') is one empty field
EmptyLineFields == << <<>> >>

\* line.startswith('@') for the line '\t'.join(fields)
StartsWithAt(fields) == Len(fields[1]) > 0 /\ fields[1][1] = "@"

\* whether int(text) succeeds
IsIntText(text) ==
    Len(text) > 0 /\ \A k \in 1..Len(text) : text[k] \in DigitChars

\* the columns int() is applied to, numbered from 1
IntColumns == {2, 4, 5, 8, 9}

\* the exception sam_entry.__init__ raises for the fields, or "" for none
sam_entry_error(fields) ==
    IF StartsWithAt(fields) THEN "ValueError"
    ELSE IF ~(Len(fields) >= 11) THEN "AssertionError"
    ELSE IF \E c \in IntColumns : ~IsIntText(fields[c]) THEN "ValueError"
    ELSE ""

\* sam_entry.__init__ for fields it raises nothing for
sam_entry(fields) ==
    LET cols == [c \in 1..Len(fields) |->
                    IF c \in IntColumns THEN IntOfDigits(fields[c])
                    ELSE fields[c]]
    IN  [qname |-> cols[1], flag |-> cols[2], rname |-> cols[3],
         pos |-> cols[4], mapq |-> cols[5], cigar |-> cols[6],
         rnext |-> cols[7], pnext |-> cols[8], tlen |-> cols[9],
         seq |-> cols[10], qual |-> cols[11], cols |-> cols]

\* sam_entry.__str__: the columns, the converted ones as str() prints them
EntryStr(e) ==
    [c \in 1..Len(e.cols) |->
        IF c \in IntColumns THEN DigitsOf(e.cols[c]) ELSE e.cols[c]]

(***************************************************************************)
(* The input files                                                         *)
(***************************************************************************)
MaxLines == 3

\* the lines next() may append at the end of the file before the model stops
\* following a call that does not return
MaxOverrun == 2

SamLine(q, f, r, p, c) ==
    <<q, DigitsOf(f), r, DigitsOf(p), DigitsOf(60), c, <<"*">>,
      DigitsOf(0), DigitsOf(0), <<"A">>, <<"I">>>>

NameA == <<"a">>

NameB == <<"b">>

\* a line with nothing on it
BlankLine == EmptyLineFields

\* '\tx': an empty name and two fields
NamelessLine == << <<>>, <<"x">> >>

\* nine fields
ShortLine == SubSeq(SamLine(NameB, 0, Contig1000, 950, Cigar60M40S), 1, 9)

\* two forward alignments of read a that bridge the origin of Contig1000
BridgeLineUp == SamLine(NameA, 0, Contig1000, 950, Cigar60M40S)

BridgeLineDown == SamLine(NameA, 0, Contig1000, 10, Cigar60S40M)

\* an unmapped record of read b
UnmappedLine == SamLine(NameB, 4, StarString, 0, StarString)

HeaderLine == << <<"@", "H", "D">>, <<"V", "N">> >>

\* a flag that is no integer
NonIntLine ==
    [SamLine(NameB, 0, Contig1000, 10, Cigar30M) EXCEPT ![2] = <<"x">>]

InputLines ==
    {BlankLine, NamelessLine, ShortLine, BridgeLineUp, BridgeLineDown,
     UnmappedLine, HeaderLine, NonIntLine}

InputFiles == UNION {[1..n -> InputLines] : n \in 0..MaxLines}

(***************************************************************************)
(* class sam_per_read and the driver loop                                  *)
(***************************************************************************)

\* self.fileh.readline().rstrip('\n').split('\t') at position p
ReadLineAt(p) == IF p <= Len(file) THEN file[p] ELSE EmptyLineFields

\* self.fileh.tell() after that readline()
TellAfter(p) == IF p <= Len(file) THEN p + 1 ELSE p

\* dict.get(k, 0)
DictGet(d, k) == IF k \in DOMAIN d THEN d[k] ELSE 0

\* d[k] = v
DictSet(d, k, v) ==
    [x \in DOMAIN d \cup {k} |-> IF x = k THEN v ELSE d[x]]

\* the three print() calls for a pair of evidence
PrintPair(x, y) ==
    << <<"record", EntryStr(x)>>, <<"record", EntryStr(y)>>,
       <<"text", <<"\n">>>> >>

\* the print() calls after the loop
PrintSummary ==
    << <<"summary",
         [single |-> supportedBySingleRead, paired |-> supportedByPairedRead,
          total |-> total, singleHits |-> singleReadHits,
          pairedHits |-> pairedReadHits]>> >>

Init ==
    /\ file \in InputFiles
    /\ fpos = 1 /\ cursor_pos = 1 /\ currlines = <<>>
    /\ pc = "next" /\ alns = <<>> /\ i = 0 /\ j = 0
    /\ total = 0 /\ singleReadHits = 0 /\ pairedReadHits = 0
    /\ supportedBySingleRead = <<>> /\ supportedByPairedRead = <<>>
    /\ out = <<>> /\ error = "" /\ groups = <<>> /\ reads = 0
    /\ evaluated = <<>>
    /\ cigarString = None /\ cig = None /\ rmss = None /\ cpc = "idle"
    /\ a = None /\ b = None /\ single = "NotCalled" /\ paired = "NotCalled"
    /\ swapped = "NotCalled"
    /\ bpc = "idle"

\* next(), lines 123-126, when the line read is empty: StopIteration, which
\* the driver catches to leave the loop and print the summary
NextStopIteration ==
    /\ pc = "next"
    /\ ReadLineAt(fpos) = EmptyLineFields
    /\ currlines' = <<ReadLineAt(fpos)>>
    /\ fpos' = TellAfter(fpos)
    /\ cursor_pos' = TellAfter(fpos)
    /\ reads' = 1
    /\ out' = out \o PrintSummary
    /\ pc' = "done"
    /\ UNCHANGED <<file, alns, i, j, total, singleReadHits, pairedReadHits,
                   supportedBySingleRead, supportedByPairedRead, error,
                   groups, evaluated, cigarVars, bridgeVars>>

\* next(), lines 123-126, when the line read starts a group
NextFirstLine ==
    /\ pc = "next"
    /\ ReadLineAt(fpos) # EmptyLineFields
    /\ currlines' = <<ReadLineAt(fpos)>>
    /\ fpos' = TellAfter(fpos)
    /\ cursor_pos' = TellAfter(fpos)
    /\ reads' = 1
    /\ pc' = "while"
    /\ UNCHANGED <<file, alns, i, j, total, singleReadHits, pairedReadHits,
                   supportedBySingleRead, supportedByPairedRead, out, error,
                   groups, evaluated, cigarVars, bridgeVars>>

\* next(), lines 127-130: the line after the cursor has the name of the
\* group; seek back, read it again and append it
NextAppend ==
    /\ pc = "while"
    /\ ReadLineAt(fpos)[1] = currlines[1][1]
    /\ Len(currlines) < Len(file) + MaxOverrun
    /\ currlines' = Append(currlines, ReadLineAt(cursor_pos))
    /\ fpos' = TellAfter(cursor_pos)
    /\ cursor_pos' = TellAfter(cursor_pos)
    /\ reads' = reads + 2
    /\ UNCHANGED <<file, pc, alns, i, j, total, singleReadHits,
                   pairedReadHits, supportedBySingleRead,
                   supportedByPairedRead, out, error, groups, evaluated,
                   cigarVars, bridgeVars>>

\* next(), lines 127 and 131-132: the line after the cursor has another
\* name; seek back and return the group; the driver counts it (line 328)
NextReturn ==
    /\ pc = "while"
    /\ ReadLineAt(fpos)[1] # currlines[1][1]
    /\ fpos' = cursor_pos
    /\ reads' = reads + 1
    /\ groups' = Append(groups, currlines)
    /\ total' = total + 1
    /\ pc' = "build"
    /\ UNCHANGED <<file, cursor_pos, currlines, alns, i, j, singleReadHits,
                   pairedReadHits, supportedBySingleRead,
                   supportedByPairedRead, out, error, evaluated,
                   cigarVars, bridgeVars>>

\* the exception of the first line of the group that sam_entry() raises for,
\* or "" when it raises for none
RECURSIVE FirstEntryError(_)
FirstEntryError(lines) ==
    IF Len(lines) = 0 THEN ""
    ELSE IF sam_entry_error(lines[1]) # "" THEN sam_entry_error(lines[1])
         ELSE FirstEntryError(Tail(lines))

\* BuildEntries with the exception of sam_entry() caught and the group
\* skipped
BuildEntriesSkipsGroup ==
    /\ pc = "build"
    /\ evaluated' = <<>>
    /\ IF FirstEntryError(currlines) # ""
       THEN /\ pc' = "next"
            /\ UNCHANGED <<alns, i, j, error>>
       ELSE /\ alns' = [k \in 1..Len(currlines) |-> sam_entry(currlines[k])]
            /\ i' = 0
            /\ j' = 0
            /\ pc' = IF Len(currlines) - 1 > 0 THEN "pairs" ELSE "next"
            /\ UNCHANGED error
    /\ UNCHANGED <<streamVars, total, singleReadHits, pairedReadHits,
                   supportedBySingleRead, supportedByPairedRead, out,
                   groups, reads, cigarVars, bridgeVars>>

\* line 329: alns = [sam_entry('\t'.join(line)) for line in readaln], and
\* the entry of the loops of lines 330-331, which a group of one record
\* never enters
BuildEntries ==
    /\ pc = "build"
    /\ evaluated' = <<>>
    /\ IF FirstEntryError(currlines) # ""
       THEN /\ error' = FirstEntryError(currlines)
            /\ pc' = "fatal"
            /\ UNCHANGED <<alns, i, j>>
       ELSE /\ alns' = [k \in 1..Len(currlines) |-> sam_entry(currlines[k])]
            /\ i' = 0
            /\ j' = 0
            /\ pc' = IF Len(currlines) - 1 > 0 THEN "pairs" ELSE "next"
            /\ UNCHANGED error
    /\ UNCHANGED <<streamVars, total, singleReadHits, pairedReadHits,
                   supportedBySingleRead, supportedByPairedRead, out,
                   groups, reads, cigarVars, bridgeVars>>

\* lines 332-345 for the pair (i, j) and the step of the loops to the next
\* pair: j runs over range(i, len(alns)), i over range(len(alns) - 1)
EvaluatePair ==
    /\ pc = "pairs"
    /\ LET x == alns[i + 1]
           y == alns[j + 1]
           s == singleReadSegmentBridges(x, y)
           p == pairedReadBridge(x, y, maxInsertSize)
           sHit == s = "True"
           sRaised == s \notin {"True", "False"}
           pHit == ~sRaised /\ p = "True"
           pRaised == ~sRaised /\ p \notin {"True", "False", "None"}
           lastJ == j + 1 = Len(alns)
           lastI == i + 1 = Len(alns) - 1
       IN  /\ evaluated' = Append(evaluated, <<i, j>>)
           /\ out' = out \o (IF sHit THEN PrintPair(x, y) ELSE <<>>)
                         \o (IF pHit THEN PrintPair(x, y) ELSE <<>>)
           /\ supportedBySingleRead' =
                 IF sHit
                 THEN DictSet(supportedBySingleRead, x.rname,
                              DictGet(supportedBySingleRead, x.rname) + 1)
                 ELSE supportedBySingleRead
           /\ singleReadHits' = singleReadHits + (IF sHit THEN 1 ELSE 0)
           \* line 344 looks the record up, not its rname: no key is ever one
           /\ supportedByPairedRead' =
                 IF pHit
                 THEN DictSet(supportedByPairedRead, x.rname, 0 + 1)
                 ELSE supportedByPairedRead
           /\ pairedReadHits' = pairedReadHits + (IF pHit THEN 1 ELSE 0)
           /\ IF sRaised \/ pRaised
              THEN /\ error' = IF sRaised THEN s ELSE p
                   /\ pc' = "fatal"
                   /\ UNCHANGED <<i, j>>
              ELSE /\ UNCHANGED error
                   /\ IF ~lastJ
                      THEN j' = j + 1 /\ UNCHANGED <<i, pc>>
                      ELSE IF ~lastI
                           THEN i' = i + 1 /\ j' = i + 1 /\ UNCHANGED pc
                           ELSE pc' = "next" /\ UNCHANGED <<i, j>>
    /\ UNCHANGED <<streamVars, alns, total, groups, reads,
                   cigarVars, bridgeVars>>

Next ==
    \/ NextStopIteration
    \/ NextFirstLine
    \/ NextAppend
    \/ NextReturn
    \/ BuildEntries
    \/ EvaluatePair

Spec == Init /\ [][Next]_vars

(***************************************************************************)
(* Properties of the read-group stream and of the driver loop              *)
(***************************************************************************)

\* the length of the longest prefix of lines whose first field is name
RECURSIVE RunLength(_, _)
RunLength(lines, name) ==
    IF Len(lines) = 0 \/ lines[1][1] # name THEN 0
    ELSE 1 + RunLength(Tail(lines), name)

\* the maximal runs of consecutive lines that share their first field
RECURSIVE RunsOf(_)
RunsOf(lines) ==
    IF Len(lines) = 0 THEN <<>>
    ELSE LET n == RunLength(lines, lines[1][1])
         IN  <<SubSeq(lines, 1, n)>> \o RunsOf(SubSeq(lines, n + 1, Len(lines)))

\* the groups returned so far are the first maximal runs of the file, and all
\* of them once the end of input has been signalled
GroupsAreRuns ==
    /\ Len(groups) <= Len(RunsOf(file))
    /\ \A k \in 1..Len(groups) : groups[k] = RunsOf(file)[k]
    /\ pc = "done" => groups = RunsOf(file)

\* the number of lines in the groups returned so far
RECURSIVE LinesIn(_)
LinesIn(gs) == IF Len(gs) = 0 THEN 0 ELSE Len(gs[1]) + LinesIn(Tail(gs))

\* C1: for any finite input sequence of lines the groups returned by the
\* successive calls of next() are, in order, exactly the maximal runs of
\* consecutive lines that share their first field: every group is non-empty
\* and single-named, and the groups concatenated are the input lines, none
\* dropped or duplicated. The last part is stated of the lines that can hold
\* a record (at least 11 fields): when the end of input is signalled each of
\* them is in a returned group.
C1_GroupsAreMaximalRuns ==
    /\ Len(groups) <= Len(RunsOf(file))
    /\ \A k \in 1..Len(groups) : groups[k] = RunsOf(file)[k]
    /\ pc = "done" =>
          \A k \in 1..Len(file) :
              Len(file[k]) >= 11 => k <= LinesIn(groups)

\* what holds of next(): the same, for the files whose lines all have a
\* non-empty first field
GroupsAreRunsOfNamedLines ==
    (\A k \in 1..Len(file) : file[k][1] # <<>>) => GroupsAreRuns

\* C2: each call of next() returns or signals the end of input after
\* finitely many reads of the file (a call that ends reads no line more than
\* twice and the end of input once, so at most 2n + 1 reads of a file of n
\* lines), and the end of input is reached after finitely many groups (at
\* most n).
C2_NextEndsAfterBoundedReads ==
    /\ reads <= 2 * Len(file) + 1
    /\ Len(groups) <= Len(file)

\* a line with fewer than 11 fields
IsShort(fields) == Len(fields) < 11

\* C10: a line with fewer than 11 tab-separated fields in a read group makes
\* the construction of the group's records raise: the error leaves the
\* driver loop and ends the run, no bridge check is evaluated and no evidence
\* is printed or counted for that group, and the output produced for the
\* earlier groups stays as it was.
C10_ShortLineIsFatal ==
    [][/\ (pc = "fatal" => FALSE)
       /\ (pc = "build" /\ \E k \in 1..Len(currlines) : IsShort(currlines[k]))
          => /\ pc' = "fatal"
             /\ error' \in {"AssertionError", "ValueError"}
             /\ evaluated' = <<>>
             /\ out' = out
             /\ singleReadHits' = singleReadHits
             /\ pairedReadHits' = pairedReadHits
             /\ supportedBySingleRead' = supportedBySingleRead
             /\ supportedByPairedRead' = supportedByPairedRead]_vars

\* a nine-field line in the second group, after a first group whose evidence
\* was printed
C10_Witness ==
    /\ pc = "fatal"
    /\ error = "AssertionError"
    /\ Len(groups) = 2
    /\ \E k \in 1..Len(groups[2]) : Len(groups[2][k]) = 9
    /\ evaluated = <<>>
    /\ singleReadHits = 1
    /\ Len(out) = 3

\* the index pairs (i, j) with 0 <= i <= j < k and i < k - 1
PairSet(k) ==
    {pr \in (0..k - 1) \X (0..k - 1) : pr[1] <= pr[2] /\ pr[1] < k - 1}

\* the pairs evaluated for the current group, as a set
EvaluatedSet == {evaluated[n] : n \in 1..Len(evaluated)}

\* the driver is through with the last group returned: it asks for the next
\* group, or the run has ended after the loop or in a bridge check
GroupIsOver ==
    /\ Len(groups) > 0
    /\ \/ pc \in {"next", "done"}
       \/ pc = "fatal" /\ error \in {"TypeError", "AttributeError"}

\* C12: for each read group of k records the driver evaluates the bridge
\* checks on exactly the index pairs (i, j) with 0 <= i <= j < k and
\* i < k - 1, each once: every pair of distinct records once as (i, j) with
\* i < j and never as (j, i), the self pair (i, i) for every i < k - 1, and
\* none for a group of one record, which is counted in the total.
C12_PairsEvaluated ==
    GroupIsOver =>
        LET k == Len(groups[Len(groups)])
        IN  /\ EvaluatedSet = PairSet(k)
            /\ Len(evaluated) = Cardinality(PairSet(k))
            /\ \A pr \in EvaluatedSet : <<pr[2], pr[1]>> \in EvaluatedSet
                                            => pr[1] = pr[2]
            /\ total = Len(groups)

\* what holds of the driver: the pairs evaluated are those of the claim, in
\* the order of the loops, up to the pair whose bridge check raises
RECURSIVE PairSeqFrom(_, _, _)
PairSeqFrom(k, ii, jj) ==
    IF ii >= k - 1 THEN <<>>
    ELSE IF jj >= k THEN PairSeqFrom(k, ii + 1, ii + 1)
         ELSE << <<ii, jj>> >> \o PairSeqFrom(k, ii, jj + 1)

PairsEvaluatedUpToRaise ==
    (Len(groups) > 0 /\ pc \in {"next", "done", "pairs", "fatal"}
        /\ error \notin {"AssertionError", "ValueError"}) =>
        LET k == Len(groups[Len(groups)])
            all == PairSeqFrom(k, 0, 0)
        IN  /\ Len(evaluated) <= Len(all)
            /\ evaluated = SubSeq(all, 1, Len(evaluated))
            /\ pc \in {"next", "done"} => evaluated = all
            /\ Len(evaluated) = Cardinality(PairSet(k)) => EvaluatedSet = PairSet(k)

\* a group of three records evaluated to its last pair
PairsOfThreeEvaluated ==
    /\ pc = "next"
    /\ Len(groups) > 0
    /\ Len(groups[Len(groups)]) = 3
    /\ evaluated = << <<0, 0>>, <<0, 1>>, <<0, 2>>, <<1, 1>>, <<1, 2>> >>

====
